---- MODULE Spec2Model ----
(***************************************************************************)
(* Model of src/code-gee.js: the MODIS LST -> air temperature calibration  *)
(* script.  The script is a straight-line program: every statement is one  *)
(* action, taken in source order (pc names the next statement).  The three *)
(* datasets it reads (boundary features, MOD11A1, ERA5 DAILY) are the      *)
(* inputs, fixed by Init.                                                  *)
(*                                                                         *)
(* Numbers.  Arithmetic is exact.  A band holds integers v over one        *)
(* denominator den (the value is v/den); the decimal constants of the      *)
(* script are fractions (0.02 = 2/100, 273.15 = 27315/100, 0.6 = 6/10).    *)
(* Reduced values (means, minima, maxima, regional statistics) are         *)
(* rationals [n, d] in lowest terms.                                       *)
(***************************************************************************)
EXTENDS Integers, Sequences, FiniteSets

VARIABLES
    boundary,               \* the biomas_IBGE_250mil feature collection
    MOD11A1,                \* the MODIS/006/MOD11A1 image collection
    ERA5_DAILY,             \* the ECMWF/ERA5/DAILY image collection
    emptyFirst,             \* what the platform makes of first() on an empty collection
    alpha,                  \* the blend coefficient (line 130)
    pc,                     \* the next statement of the script
    roi,
    era5_mean, era5_min, era5_max,
    day_terra, night_terra,
    combined, combined_pantanal,
    airTemp_pantanal_mean, airTemp_pantanal_min, airTemp_pantanal_max,
    meanAirTemp, minAirTemp, maxAirTemp,
    stats, statsFC,
    mapLayers,              \* what Map.addLayer / Map.centerObject were given
    console,                \* what print was given
    exports                 \* the tasks Export.image.toDrive created

inputs == <<boundary, MOD11A1, ERA5_DAILY, emptyFirst, alpha>>
locals == <<roi, era5_mean, era5_min, era5_max, day_terra, night_terra,
            combined, combined_pantanal,
            airTemp_pantanal_mean, airTemp_pantanal_min, airTemp_pantanal_max,
            meanAirTemp, minAirTemp, maxAirTemp, stats, statsFC>>
sinks == <<mapLayers, console, exports>>
vars == <<inputs, pc, locals, sinks>>

----------------------------------------------------------------------------
(* Bounds of the model *)

\* pixels of the raster grid
NumPixels == 2
\* days of the window for which the datasets may hold an image
MaxDays == 2
\* how many deviations from the complete, clean datasets one input has
MaxDefects == 1
\* digital numbers / reanalysis values / quality flags tried by SpecProbe
ProbeValues == 4

Pixels == 1..NumPixels

----------------------------------------------------------------------------
(* Exact arithmetic *)

Abs(x) == IF x < 0 THEN -x ELSE x

RECURSIVE GCD(_, _)
GCD(a, b) == IF b = 0 THEN a ELSE GCD(b, a % b)

LCM(a, b) == (a \div GCD(a, b)) * b

\* the rational n/d, d > 0, in lowest terms
Rat(n, d) ==
    LET g == GCD(Abs(n), d)
    IN  [n |-> n \div g, d |-> d \div g]

RatOfInt(x) == [n |-> x, d |-> 1]

RatAdd(x, y) ==
    LET l == LCM(x.d, y.d)
    IN  Rat(x.n * (l \div x.d) + y.n * (l \div y.d), l)

RatSub(x, y) == RatAdd(x, [n |-> -y.n, d |-> y.d])

RatMul(x, y) == Rat(x.n * y.n, x.d * y.d)

RatDivInt(x, k) == Rat(x.n, x.d * k)

RatLeq(x, y) ==
    LET l == LCM(x.d, y.d)
    IN  x.n * (l \div x.d) <= y.n * (l \div y.d)

RECURSIVE RatSum(_)
RatSum(s) == IF s = <<>> THEN RatOfInt(0) ELSE RatAdd(Head(s), RatSum(Tail(s)))

RECURSIVE RatMin(_)
RatMin(s) ==
    IF Len(s) = 1 THEN Head(s)
    ELSE LET m == RatMin(Tail(s)) IN IF RatLeq(Head(s), m) THEN Head(s) ELSE m

RECURSIVE RatMax(_)
RatMax(s) ==
    IF Len(s) = 1 THEN Head(s)
    ELSE LET m == RatMax(Tail(s)) IN IF RatLeq(m, Head(s)) THEN Head(s) ELSE m

RECURSIVE BitAnd(_, _)
BitAnd(a, b) ==
    IF a = 0 \/ b = 0 THEN 0
    ELSE (a % 2) * (b % 2) + 2 * BitAnd(a \div 2, b \div 2)

\* the elements of a sequence at the positions of I, in order
RECURSIVE Pick(_, _, _)
Pick(s, I, k) ==
    IF k > Len(s) THEN <<>>
    ELSE (IF k \in I THEN <<s[k]>> ELSE <<>>) \o Pick(s, I, k + 1)

----------------------------------------------------------------------------
(* Images (ee.Image): properties and named bands.  A band is a raster     *)
(* [unit, den, px]: px[p] = [valid, v] is pixel p, masked when ~valid;    *)
(* unit is the physical unit the values are in: "DN", "K", "C", "flags",  *)
(* "none" for a raster without values, "?" once values of different       *)
(* units were combined.                                                   *)

Const(n, d) == [n |-> n, d |-> d]

TimeProps == {"system:time_start", "system:time_end"}

NoProps == [k \in {} |-> 0]

Masked == [valid |-> FALSE, v |-> 0]

Px(v) == [valid |-> TRUE, v |-> v]

TheBand(image) == CHOOSE b \in DOMAIN image.bands : TRUE

date(image) == image.props["system:time_start"]

select(image, names) ==
    [image EXCEPT !.bands = [b \in names |-> image.bands[b]]]

\* a band computed pixel by pixel from a band: v[p] where the band is valid
PixelWise(band, unit, den, v) ==
    [unit |-> unit,
     den  |-> den,
     px   |-> [p \in Pixels |-> IF band.px[p].valid THEN Px(v[p]) ELSE Masked]]

\* image.bitwiseAnd(k); an arithmetic result keeps no property
bitwiseAnd(image, k) ==
    [props |-> NoProps,
     bands |-> [b \in DOMAIN image.bands |->
        LET r == image.bands[b]
        IN  PixelWise(r, r.unit, r.den, [p \in Pixels |-> BitAnd(r.px[p].v, k)])]]

\* image.eq(k)
eq(image, k) ==
    [props |-> NoProps,
     bands |-> [b \in DOMAIN image.bands |->
        LET r == image.bands[b]
        IN  PixelWise(r, r.unit, r.den,
                      [p \in Pixels |-> IF r.px[p].v = k THEN 1 ELSE 0])]]

\* image.multiply(c): a digital number times the sensor's scale factor is in
\* Kelvin; any other product keeps its unit
multiply(image, c) ==
    [props |-> NoProps,
     bands |-> [b \in DOMAIN image.bands |->
        LET r == image.bands[b]
        IN  PixelWise(r, IF r.unit = "DN" THEN "K" ELSE r.unit, r.den * c.d,
                      [p \in Pixels |-> r.px[p].v * c.n])]]

\* image.subtract(c) for a constant c: Kelvin less 273.15 is Celsius
subtractConst(image, c) ==
    [props |-> NoProps,
     bands |-> [b \in DOMAIN image.bands |->
        LET r == image.bands[b]
            l == LCM(r.den, c.d)
        IN  PixelWise(r,
                      IF r.unit = "K" THEN "C"
                      ELSE IF r.unit = "none" THEN r.unit ELSE "?",
                      l,
                      [p \in Pixels |->
                         r.px[p].v * (l \div r.den) - c.n * (l \div c.d)])]]

\* image1 op image2 for single-band images: named for image1's band, masked
\* where either is masked, no property kept
Binary(image1, image2, sign) ==
    LET b1 == TheBand(image1)
        b2 == TheBand(image2)
        r1 == image1.bands[b1]
        r2 == image2.bands[b2]
        l  == LCM(r1.den, r2.den)
    IN  [props |-> NoProps,
         bands |-> [b \in {b1} |->
            [unit |-> IF r1.unit = r2.unit \/ r2.unit = "none" THEN r1.unit
                      ELSE IF r1.unit = "none" THEN r2.unit ELSE "?",
             den  |-> l,
             px   |-> [p \in Pixels |->
                IF r1.px[p].valid /\ r2.px[p].valid
                THEN Px(r1.px[p].v * (l \div r1.den)
                        + sign * r2.px[p].v * (l \div r2.den))
                ELSE Masked]]]]

add(image1, image2) == Binary(image1, image2, 1)

subtract(image1, image2) == Binary(image1, image2, -1)

\* image.updateMask(mask): a pixel stays valid where it was valid and the
\* mask is non-zero; properties are retained
updateMask(image, mask) ==
    LET m == mask.bands[TheBand(mask)].px
    IN  [image EXCEPT !.bands = [b \in DOMAIN image.bands |->
            [image.bands[b] EXCEPT !.px = [p \in Pixels |->
                IF image.bands[b].px[p].valid /\ m[p].valid /\ m[p].v # 0
                THEN image.bands[b].px[p] ELSE Masked]]]]

rename(image, name) ==
    [image EXCEPT !.bands = [b \in {name} |-> image.bands[TheBand(image)]]]

copyProperties(image, source, keys) ==
    LET ks == keys \cap DOMAIN source.props
    IN  [image EXCEPT !.props = [k \in (DOMAIN image.props) \cup ks |->
            IF k \in ks THEN source.props[k] ELSE image.props[k]]]

\* the pixels a feature collection covers
Coverage(fc) == UNION {fc[i].geometry : i \in 1..Len(fc)}

\* image.clip(fc): masked outside the geometry; properties are retained
clip(image, fc) ==
    [image EXCEPT !.bands = [b \in DOMAIN image.bands |->
        [image.bands[b] EXCEPT !.px = [p \in Pixels |->
            IF p \in Coverage(fc) THEN image.bands[b].px[p] ELSE Masked]]]]

\* the image whose every pixel is masked: what arithmetic makes of a
\* missing operand when the platform does not reject it
NoData(name) ==
    [props |-> NoProps,
     bands |-> [b \in {name} |->
        [unit |-> "none", den |-> 1, px |-> [p \in Pixels |-> Masked]]]]

----------------------------------------------------------------------------
(* Collections are sequences of images, in collection order *)

\* collection.filterDate(start, end): start <= system:time_start < end
filterDate(c, start, end) ==
    LET Test(image) == start <= date(image) /\ date(image) < end
    IN  SelectSeq(c, Test)

\* collection.filter(ee.Filter.date(d)): the images that start at d
filterDateAt(c, d) ==
    LET Test(image) == date(image) = d
    IN  SelectSeq(c, Test)

selectAll(c, names) == [i \in 1..Len(c) |-> select(c[i], names)]

merge(c1, c2) == c1 \o c2

----------------------------------------------------------------------------
(* The script's constants *)

\* '2010-01-01' and '2010-01-31' (lines 53, 97), as days of January 2010
WindowStart == 1
WindowEnd == 31

\* 1 << 2 (lines 38, 46)
bitMask2 == 2^2

\* 0.02 (lines 102, 115) and 273.15 (lines 68, 78, 88, 103, 116)
ScaleFactor == Const(2, 100)
KelvinOffset == Const(27315, 100)

\* var alpha = 0.6 (line 130)
Alpha06 == Const(6, 10)

----------------------------------------------------------------------------
(* Quality filters (lines 36-49) *)

\* mutant: bit 1 is tested instead of bit 2
filterDay_bit1(image) ==
    LET qa   == select(image, {"QC_Day"})
        mask == eq(bitwiseAnd(qa, 2), 0)
    IN  updateMask(image, mask)

filterDay(image) ==
    LET qa   == select(image, {"QC_Day"})
        mask == eq(bitwiseAnd(qa, bitMask2), 0)
    IN  updateMask(image, mask)

filterNight(image) ==
    LET qa   == select(image, {"QC_Night"})
        mask == eq(bitwiseAnd(qa, bitMask2), 0)
    IN  updateMask(image, mask)

----------------------------------------------------------------------------
(* Calibration (lines 65-93).  The result is [ok, image]: ok is FALSE when *)
(* the platform rejects the computation.  collection.first() of an empty   *)
(* collection is no image; whether arithmetic on it is rejected ("error")  *)
(* or yields an all-masked image ("nodata") is the platform's choice,      *)
(* emptyFirst.                                                             *)

first(c) == IF c = <<>> THEN [none |-> TRUE] ELSE [none |-> FALSE, image |-> Head(c)]

Reject == [ok |-> FALSE, image |-> NoData("none")]

Blend(image, era5, a, name) ==
    LET f == first(filterDateAt(era5, date(image)))
        era5SameDay ==
            IF f.none THEN NoData("none") ELSE subtractConst(f.image, KelvinOffset)
    IN  IF f.none /\ emptyFirst = "error" THEN Reject
        ELSE [ok    |-> TRUE,
              image |-> copyProperties(
                          rename(add(image, multiply(subtract(era5SameDay, image), a)),
                                 name),
                          image, TimeProps)]

\* mutant: the difference taken the other way round (image - era5)
BlendSwapped(image, era5, a, name) ==
    LET f == first(filterDateAt(era5, date(image)))
        era5SameDay ==
            IF f.none THEN NoData("none") ELSE subtractConst(f.image, KelvinOffset)
    IN  IF f.none /\ emptyFirst = "error" THEN Reject
        ELSE [ok    |-> TRUE,
              image |-> copyProperties(
                          rename(add(image, multiply(subtract(image, era5SameDay), a)),
                                 name),
                          image, TimeProps)]

calibrateLSTtoTAmax_swapped(image, a) ==
    BlendSwapped(image, era5_max, a, "air_temperature_max")

\* mutant: the reanalysis value is used as loaded, in Kelvin
BlendKelvin(image, era5, a, name) ==
    LET f == first(filterDateAt(era5, date(image)))
        era5SameDay == IF f.none THEN NoData("none") ELSE f.image
    IN  IF f.none /\ emptyFirst = "error" THEN Reject
        ELSE [ok    |-> TRUE,
              image |-> copyProperties(
                          rename(add(image, multiply(subtract(era5SameDay, image), a)),
                                 name),
                          image, TimeProps)]

calibrateLSTtoTAmin_kelvin(image, a) ==
    BlendKelvin(image, era5_min, a, "air_temperature_min")

calibrateLSTtoTAmean(image, a) == Blend(image, era5_mean, a, "air_temperature_mean")

calibrateLSTtoTAmin(image, a) == Blend(image, era5_min, a, "air_temperature_min")

calibrateLSTtoTAmax(image, a) == Blend(image, era5_max, a, "air_temperature_max")

\* collection.map(f) for an f that may be rejected: one rejected element
\* fails the whole collection
MapOk(results) ==
    IF \A i \in 1..Len(results) : results[i].ok
    THEN [ok |-> TRUE, images |-> [i \in 1..Len(results) |-> results[i].image]]
    ELSE [ok |-> FALSE, images |-> <<>>]

----------------------------------------------------------------------------
(* LST extraction (lines 96-119) *)

rescaleDay(image) ==
    copyProperties(
        rename(subtractConst(multiply(select(image, {"LST_Day_1km"}), ScaleFactor),
                             KelvinOffset),
               "LST"),
        image, TimeProps)

\* mutant: the Kelvin offset is not subtracted
rescaleNight_noOffset(image) ==
    copyProperties(
        rename(multiply(select(image, {"LST_Night_1km"}), ScaleFactor), "LST"),
        image, TimeProps)

rescaleNight(image) ==
    copyProperties(
        rename(subtractConst(multiply(select(image, {"LST_Night_1km"}), ScaleFactor),
                             KelvinOffset),
               "LST"),
        image, TimeProps)

----------------------------------------------------------------------------
(* Reductions.  A reduced raster has den = 0 and rational pixel values. *)

MaskedRat == [valid |-> FALSE, v |-> RatOfInt(0)]

PxRat(band, p) == IF band.den = 0 THEN band.px[p].v ELSE Rat(band.px[p].v, band.den)

\* the positions of the images of a collection that are valid at pixel p
ValidAt(c, p) == {i \in 1..Len(c) : c[i].bands[TheBand(c[i])].px[p].valid}

ValuesAt(c, p) ==
    LET valid == Pick(c, ValidAt(c, p), 1)
    IN  [i \in 1..Len(valid) |-> PxRat(valid[i].bands[TheBand(valid[i])], p)]

Mean(vals) == RatDivInt(RatSum(vals), Len(vals))

\* ee.Reducer.mean() / .min() / .max() applied to a non-empty list of values
Reducer(kind, vals) ==
    CASE kind = "mean" -> Mean(vals)
      [] kind = "min"  -> RatMin(vals)
      [] kind = "max"  -> RatMax(vals)

\* a single-band image reduced from a collection: the band keeps its name,
\* a pixel is masked where no image of the collection is valid
ReducedImage(c, v) ==
    LET b == TheBand(c[1])
    IN  [props |-> NoProps,
         bands |-> [x \in {b} |->
            [unit |-> c[1].bands[b].unit,
             den  |-> 0,
             px   |-> [p \in Pixels |->
                IF ValidAt(c, p) = {} THEN MaskedRat
                ELSE [valid |-> TRUE, v |-> v[p]]]]]]

\* collection.mean() / .min() / .max(): pixelwise over the images valid at
\* the pixel
ReduceCollection(c, kind) ==
    ReducedImage(c, [p \in Pixels |->
        IF ValidAt(c, p) = {} THEN RatOfInt(0) ELSE Reducer(kind, ValuesAt(c, p))])

\* mutant: masked observations count in the divisor
mean_overAll(c) ==
    ReducedImage(c, [p \in Pixels |-> RatDivInt(RatSum(ValuesAt(c, p)), Len(c))])

mean(c) == ReduceCollection(c, "mean")

min(c) == ReduceCollection(c, "min")

max(c) == ReduceCollection(c, "max")

\* the values of the valid pixels of a single-band image inside a region
RegionValues(image, fc) ==
    LET band == image.bands[TheBand(image)]
        I == {p \in Pixels : p \in Coverage(fc) /\ band.px[p].valid}
        inside == Pick([p \in Pixels |-> p], I, 1)
    IN  [i \in 1..Len(inside) |-> PxRat(band, inside[i])]

Null == [valid |-> FALSE, v |-> RatOfInt(0)]

Value(x) == [valid |-> TRUE, v |-> x]

Range(s) == {s[i] : i \in 1..Len(s)}

\* a standard deviation is kept as the population it is the deviation of
\* (value -> multiplicity): it is a square root, not a rational
Population(vals) ==
    [x \in Range(vals) |-> Cardinality({i \in 1..Len(vals) : vals[i] = x})]

\* image.reduceRegion({reducer: ee.Reducer.<kind>(), geometry: fc}): null
\* when no valid pixel lies inside
reduceRegion(image, fc, kind) ==
    LET vals == RegionValues(image, fc)
    IN  IF vals = <<>> THEN Null ELSE Value(Reducer(kind, vals))

\* ... and for mean combined with stdDev and minMax (lines 188-194)
reduceRegionCombined(image, fc) ==
    LET vals == RegionValues(image, fc)
        b == TheBand(image)
    IN  [band   |-> b,
         unit   |-> image.bands[b].unit,
         mean   |-> IF vals = <<>> THEN Null ELSE Value(Mean(vals)),
         stdDev |-> [valid |-> vals # <<>>, of |-> Population(vals)],
         min    |-> IF vals = <<>> THEN Null ELSE Value(RatMin(vals)),
         max    |-> IF vals = <<>> THEN Null ELSE Value(RatMax(vals))]

\* the integers nearest to x (two when x lies halfway)
RoundChoices(x) ==
    LET f == x.n \div x.d
        twice == 2 * (x.n - f * x.d)
    IN  IF twice < x.d THEN {f} ELSE IF twice > x.d THEN {f + 1} ELSE {f, f + 1}

\* the images image.round() may be
RoundImages(image) ==
    LET b == TheBand(image)
        band == image.bands[b]
        cand == UNION {RoundChoices(band.px[p].v) : p \in Pixels}
        fits(f) == \A p \in Pixels :
                     IF band.px[p].valid THEN f[p] \in RoundChoices(band.px[p].v)
                     ELSE f[p] = 0
    IN  {[props |-> image.props,
          bands |-> [x \in {b} |->
             [unit |-> band.unit, den |-> 1,
              px |-> [p \in Pixels |->
                        IF band.px[p].valid THEN Px(f[p]) ELSE Masked]]]] :
         f \in {g \in [Pixels -> cand \cup {0}] : fits(g)}}

----------------------------------------------------------------------------
(* The datasets.  A complete, clean dataset holds one image per day, every *)
(* pixel produced and of good quality; an input deviates from it by a set  *)
(* of defects:                                                             *)
(*   <<"lowq", d, b, p>>    bit 2 of the quality flag of pixel p is set    *)
(*   <<"nodata", d, b, p>>  the LST of pixel p was not produced (masked)   *)
(*   <<"nomodis", d, _, _>> MOD11A1 has no image of day d                  *)
(*   <<"noera5", d, _, _>>  ERA5 DAILY has no image of day d               *)
(*   <<"renamed", ...>>     no feature is named 'Pantanal'                 *)
(*   <<"duplicate", ...>>   a second feature is named 'Pantanal'           *)

\* the days the datasets hold: the last MaxDays days of the window and the
\* first day after it
WindowDays == (WindowEnd - MaxDays)..(WindowEnd - 1)
DatasetDays == WindowDays \cup {WindowEnd}

Times == {"Day", "Night"}

Universe ==
    {<<k, d, b, p>> : k \in {"lowq", "nodata"}, d \in WindowDays, b \in Times, p \in Pixels}
    \cup {<<k, d, "-", 0>> : k \in {"nomodis", "noera5"}, d \in WindowDays}
    \cup {<<"renamed", 0, "-", 0>>, <<"duplicate", 0, "-", 0>>}

RECURSIVE UpTo(_)
UpTo(k) ==
    IF k = 0 THEN {{}}
    ELSE LET S == UpTo(k - 1) IN S \cup {s \cup {x} : s \in S, x \in Universe}

\* MOD11A1 holds an image of at least one day of the window
DefectSets ==
    {D \in UpTo(MaxDefects) : \E d \in WindowDays : <<"nomodis", d, "-", 0>> \notin D}

RECURSIVE Ascending(_)
Ascending(days) ==
    IF days = {} THEN <<>>
    ELSE LET d == CHOOSE x \in days : \A y \in days : x <= y
         IN  <<d>> \o Ascending(days \ {d})

DayDN(d, p) == 15000 + 100 * (d - WindowEnd + MaxDays) + 10 * p

NightDN(d, p) == 14600 + 50 * (WindowEnd - d) + 10 * p

GoodQC(b) == IF b = "Day" THEN 0 ELSE 65

LowQC(b) == IF b = "Day" THEN 5 ELSE 69

Kelvin(d, p) == 29815 + 100 * (d - WindowEnd + MaxDays) + p

Raster(unit, den, px) == [unit |-> unit, den |-> den, px |-> px]

TimeOf(d) == [k \in TimeProps |-> IF k = "system:time_start" THEN d ELSE d + 1]

ModisImage(d, D) ==
    LET lst(b, p) ==
            IF <<"nodata", d, b, p>> \in D THEN Masked
            ELSE Px(IF b = "Day" THEN DayDN(d, p) ELSE NightDN(d, p))
        qc(b, p) == Px(IF <<"lowq", d, b, p>> \in D THEN LowQC(b) ELSE GoodQC(b))
        LD == [p \in Pixels |-> lst("Day", p)]
        LN == [p \in Pixels |-> lst("Night", p)]
        QD == [p \in Pixels |-> qc("Day", p)]
        QN == [p \in Pixels |-> qc("Night", p)]
    IN  [props |-> TimeOf(d),
         bands |-> [LST_Day_1km   |-> Raster("DN", 1, LD),
                    QC_Day        |-> Raster("flags", 1, QD),
                    LST_Night_1km |-> Raster("DN", 1, LN),
                    QC_Night      |-> Raster("flags", 1, QN)]]

Era5Image(d) ==
    LET M == [p \in Pixels |-> Px(Kelvin(d, p))]
        L == [p \in Pixels |-> Px(Kelvin(d, p) - 480 - 10 * p)]
        H == [p \in Pixels |-> Px(Kelvin(d, p) + 520 + 20 * p)]
    IN  [props |-> TimeOf(d),
         bands |-> [mean_2m_air_temperature    |-> Raster("K", 100, M),
                    minimum_2m_air_temperature |-> Raster("K", 100, L),
                    maximum_2m_air_temperature |-> Raster("K", 100, H)]]

Boundary(D) ==
    << [Bioma    |-> IF <<"renamed", 0, "-", 0>> \in D THEN "Pampa" ELSE "Pantanal",
        geometry |-> 1..(NumPixels - 1)],
       [Bioma    |-> IF <<"duplicate", 0, "-", 0>> \in D THEN "Pantanal" ELSE "Cerrado",
        geometry |-> {NumPixels}] >>

Modis(D) ==
    LET days == Ascending({d \in DatasetDays : <<"nomodis", d, "-", 0>> \notin D})
    IN  [i \in 1..Len(days) |-> ModisImage(days[i], D)]

Era5(D) ==
    LET days == Ascending({d \in DatasetDays : <<"noera5", d, "-", 0>> \notin D})
    IN  [i \in 1..Len(days) |-> Era5Image(days[i])]

Undefined == <<>>

Stages ==
    << "roi", "boundary", "era5", "day_terra", "night_terra", "combined",
       "combined_pantanal", "airTemp_mean", "airTemp_min", "airTemp_max",
       "aggregate", "layer_mean", "layer_max", "layer_min", "stats", "timeStats",
       "timeChart", "chart_mean", "chart_max", "chart_min",
       "export_mean", "export_max", "export_min", "done" >>

StageIndex(l) == CHOOSE i \in 1..Len(Stages) : Stages[i] = l

\* the statement labelled l has run (a halted script ran none of the later ones)
Ran(l) == pc # "halted" /\ StageIndex(pc) > StageIndex(l)

InitLocals ==
    /\ pc = "roi"
    /\ roi = Undefined
    /\ era5_mean = Undefined /\ era5_min = Undefined /\ era5_max = Undefined
    /\ day_terra = Undefined /\ night_terra = Undefined
    /\ combined = Undefined /\ combined_pantanal = Undefined
    /\ airTemp_pantanal_mean = Undefined
    /\ airTemp_pantanal_min = Undefined
    /\ airTemp_pantanal_max = Undefined
    /\ meanAirTemp = Undefined /\ minAirTemp = Undefined /\ maxAirTemp = Undefined
    /\ stats = Undefined /\ statsFC = Undefined
    /\ mapLayers = <<>> /\ console = <<>> /\ exports = <<>>

Init ==
    /\ \E D \in DefectSets :
        /\ boundary = Boundary(D)
        /\ MOD11A1 = Modis(D)
        /\ ERA5_DAILY = Era5(D)
    /\ emptyFirst \in {"nodata", "error"}
    /\ alpha = Alpha06
    /\ InitLocals

----------------------------------------------------------------------------
(* The script, statement by statement *)

Goto(l) == pc' = l

\* lines 21-22: the features whose Bioma is 'Pantanal'
IsPantanal(feature) == feature.Bioma = "Pantanal"

SelectRoi ==
    /\ pc = "roi"
    /\ roi' = SelectSeq(boundary, IsPantanal)
    /\ Goto("boundary")
    /\ UNCHANGED <<inputs, era5_mean, era5_min, era5_max, day_terra, night_terra,
                   combined, combined_pantanal, airTemp_pantanal_mean,
                   airTemp_pantanal_min, airTemp_pantanal_max, meanAirTemp,
                   minAirTemp, maxAirTemp, stats, statsFC, sinks>>

\* lines 25-33: the outline layer, then Map.centerObject(roi, 6).  Whether
\* centring on an empty collection throws (and ends the script) is the
\* platform's choice.
DrawBoundary ==
    /\ pc = "boundary"
    /\ mapLayers' = Append(mapLayers,
            [name |-> "Pantanal Boundary", ok |-> TRUE, shown |-> Coverage(roi)])
    /\ \/ /\ Goto("era5")
          /\ console' = console
       \/ /\ roi = <<>>
          /\ Goto("halted")
          /\ console' = Append(console, [label |-> "Map.centerObject", ok |-> FALSE])
    /\ UNCHANGED <<inputs, locals, exports>>

\* lines 52-62
LoadEra5 ==
    /\ pc = "era5"
    /\ era5_mean' = selectAll(filterDate(ERA5_DAILY, WindowStart, WindowEnd),
                              {"mean_2m_air_temperature"})
    /\ era5_min' = selectAll(filterDate(ERA5_DAILY, WindowStart, WindowEnd),
                             {"minimum_2m_air_temperature"})
    /\ era5_max' = selectAll(filterDate(ERA5_DAILY, WindowStart, WindowEnd),
                             {"maximum_2m_air_temperature"})
    /\ Goto("day_terra")
    /\ UNCHANGED <<inputs, roi, day_terra, night_terra, combined, combined_pantanal,
                   airTemp_pantanal_mean, airTemp_pantanal_min, airTemp_pantanal_max,
                   meanAirTemp, minAirTemp, maxAirTemp, stats, statsFC, sinks>>

\* lines 96-106
DayTerra ==
    /\ pc = "day_terra"
    /\ LET selected == selectAll(filterDate(MOD11A1, WindowStart, WindowEnd),
                                 {"LST_Day_1km", "QC_Day"})
       IN  day_terra' = [i \in 1..Len(selected) |-> rescaleDay(filterDay(selected[i]))]
    /\ Goto("night_terra")
    /\ UNCHANGED <<inputs, roi, era5_mean, era5_min, era5_max, night_terra, combined,
                   combined_pantanal, airTemp_pantanal_mean, airTemp_pantanal_min,
                   airTemp_pantanal_max, meanAirTemp, minAirTemp, maxAirTemp,
                   stats, statsFC, sinks>>

\* lines 109-119
NightTerra ==
    /\ pc = "night_terra"
    /\ LET selected == selectAll(filterDate(MOD11A1, WindowStart, WindowEnd),
                                 {"LST_Night_1km", "QC_Night"})
       IN  night_terra' =
             [i \in 1..Len(selected) |-> rescaleNight(filterNight(selected[i]))]
    /\ Goto("combined")
    /\ UNCHANGED <<inputs, roi, era5_mean, era5_min, era5_max, day_terra, combined,
                   combined_pantanal, airTemp_pantanal_mean, airTemp_pantanal_min,
                   airTemp_pantanal_max, meanAirTemp, minAirTemp, maxAirTemp,
                   stats, statsFC, sinks>>

\* line 122
Merge ==
    /\ pc = "combined"
    /\ combined' = merge(day_terra, night_terra)
    /\ Goto("combined_pantanal")
    /\ UNCHANGED <<inputs, roi, era5_mean, era5_min, era5_max, day_terra, night_terra,
                   combined_pantanal, airTemp_pantanal_mean, airTemp_pantanal_min,
                   airTemp_pantanal_max, meanAirTemp, minAirTemp, maxAirTemp,
                   stats, statsFC, sinks>>

\* lines 125-127
ClipToRoi(c) == [i \in 1..Len(c) |-> clip(c[i], roi)]

Clip ==
    /\ pc = "combined_pantanal"
    /\ combined_pantanal' = ClipToRoi(combined)
    /\ Goto("airTemp_mean")
    /\ UNCHANGED <<inputs, roi, era5_mean, era5_min, era5_max, day_terra, night_terra,
                   combined, airTemp_pantanal_mean, airTemp_pantanal_min,
                   airTemp_pantanal_max, meanAirTemp, minAirTemp, maxAirTemp,
                   stats, statsFC, sinks>>

\* lines 132-134
CalibrateMean ==
    /\ pc = "airTemp_mean"
    /\ airTemp_pantanal_mean' =
         MapOk([i \in 1..Len(combined_pantanal) |->
                  calibrateLSTtoTAmean(combined_pantanal[i], alpha)])
    /\ Goto("airTemp_min")
    /\ UNCHANGED <<inputs, roi, era5_mean, era5_min, era5_max, day_terra, night_terra,
                   combined, combined_pantanal, airTemp_pantanal_min,
                   airTemp_pantanal_max, meanAirTemp, minAirTemp, maxAirTemp,
                   stats, statsFC, sinks>>

\* lines 136-138
CalibrateMin ==
    /\ pc = "airTemp_min"
    /\ airTemp_pantanal_min' =
         MapOk([i \in 1..Len(combined_pantanal) |->
                  calibrateLSTtoTAmin(combined_pantanal[i], alpha)])
    /\ Goto("airTemp_max")
    /\ UNCHANGED <<inputs, roi, era5_mean, era5_min, era5_max, day_terra, night_terra,
                   combined, combined_pantanal, airTemp_pantanal_mean,
                   airTemp_pantanal_max, meanAirTemp, minAirTemp, maxAirTemp,
                   stats, statsFC, sinks>>

\* lines 140-142
CalibrateMax ==
    /\ pc = "airTemp_max"
    /\ airTemp_pantanal_max' =
         MapOk([i \in 1..Len(combined_pantanal) |->
                  calibrateLSTtoTAmax(combined_pantanal[i], alpha)])
    /\ Goto("aggregate")
    /\ UNCHANGED <<inputs, roi, era5_mean, era5_min, era5_max, day_terra, night_terra,
                   combined, combined_pantanal, airTemp_pantanal_mean,
                   airTemp_pantanal_min, meanAirTemp, minAirTemp, maxAirTemp,
                   stats, statsFC, sinks>>

\* a reduction of a collection that may have been rejected
Reduced(c, kind) ==
    IF ~c.ok THEN Reject
    ELSE [ok |-> TRUE,
          image |-> CASE kind = "mean" -> mean(c.images)
                      [] kind = "min"  -> min(c.images)
                      [] kind = "max"  -> max(c.images)]

\* lines 145-147
Aggregate ==
    /\ pc = "aggregate"
    /\ meanAirTemp' = Reduced(airTemp_pantanal_mean, "mean")
    /\ minAirTemp' = Reduced(airTemp_pantanal_min, "min")
    /\ maxAirTemp' = Reduced(airTemp_pantanal_max, "max")
    /\ Goto("layer_mean")
    /\ UNCHANGED <<inputs, roi, era5_mean, era5_min, era5_max, day_terra, night_terra,
                   combined, combined_pantanal, airTemp_pantanal_mean,
                   airTemp_pantanal_min, airTemp_pantanal_max, stats, statsFC, sinks>>

Layer(name, x, lo, hi) ==
    [name |-> name, ok |-> x.ok, shown |-> x.image, min |-> lo, max |-> hi]

AddLayer(name, x, lo, hi, next) ==
    /\ mapLayers' = Append(mapLayers, Layer(name, x, lo, hi))
    /\ Goto(next)
    /\ UNCHANGED <<inputs, locals, console, exports>>

\* lines 150-154
AddLayerMean ==
    pc = "layer_mean" /\ AddLayer("Mean Air Temperature (C)", meanAirTemp, 25, 35, "layer_max")

\* lines 156-160
AddLayerMax ==
    pc = "layer_max" /\ AddLayer("Max Air Temperature (C)", maxAirTemp, 30, 40, "layer_min")

\* lines 162-166
AddLayerMin ==
    pc = "layer_min" /\ AddLayer("Min Air Temperature (C)", minAirTemp, 15, 25, "stats")

\* lines 185-199
Stats ==
    /\ pc = "stats"
    /\ LET meanAirTempImage == Reduced(airTemp_pantanal_mean, "mean")
       IN  stats' = IF meanAirTempImage.ok
                    THEN [ok |-> TRUE,
                          value |-> reduceRegionCombined(meanAirTempImage.image, roi)]
                    ELSE [ok |-> FALSE]
    /\ console' = Append(console,
            [label |-> "Air Temperature Statistics - Pantanal (Jan 2020):",
             ok |-> stats'.ok, value |-> stats'])
    /\ Goto("timeStats")
    /\ UNCHANGED <<inputs, roi, era5_mean, era5_min, era5_max, day_terra, night_terra,
                   combined, combined_pantanal, airTemp_pantanal_mean,
                   airTemp_pantanal_min, airTemp_pantanal_max, meanAirTemp,
                   minAirTemp, maxAirTemp, statsFC, mapLayers, exports>>

\* lines 202-210: one feature per image, its regional mean and its date
timeStatsOf(image) ==
    [date |-> date(image),
     unit |-> image.bands[TheBand(image)].unit,
     air_temperature_mean |-> reduceRegion(image, roi, "mean")]

\* lines 202-213
TimeStats ==
    /\ pc = "timeStats"
    /\ statsFC' = IF airTemp_pantanal_mean.ok
                  THEN [ok |-> TRUE,
                        features |-> [i \in 1..Len(airTemp_pantanal_mean.images) |->
                                        timeStatsOf(airTemp_pantanal_mean.images[i])]]
                  ELSE [ok |-> FALSE, features |-> <<>>]
    /\ console' = Append(console,
            [label |-> "Temporal Statistics:", ok |-> statsFC'.ok, value |-> statsFC'])
    /\ Goto("timeChart")
    /\ UNCHANGED <<inputs, roi, era5_mean, era5_min, era5_max, day_terra, night_terra,
                   combined, combined_pantanal, airTemp_pantanal_mean,
                   airTemp_pantanal_min, airTemp_pantanal_max, meanAirTemp,
                   minAirTemp, maxAirTemp, stats, mapLayers, exports>>

\* lines 215-226: the chart of statsFC, 'date' against 'air_temperature_mean'
TimeChart ==
    /\ pc = "timeChart"
    /\ console' = Append(console,
            [label |-> "Daily Mean Air Temperature Variation", ok |-> statsFC.ok,
             value |-> [i \in 1..Len(statsFC.features) |->
                          [x |-> statsFC.features[i].date,
                           y |-> statsFC.features[i].air_temperature_mean]]])
    /\ Goto("chart_mean")
    /\ UNCHANGED <<inputs, locals, mapLayers, exports>>

\* ui.Chart.image.series (lines 169-182, 228-256): per image, the regional
\* reduction against system:time_start
Series(title, c, kind) ==
    [label |-> title, ok |-> c.ok,
     value |-> [i \in 1..Len(c.images) |->
                  [x |-> date(c.images[i]),
                   y |-> reduceRegion(c.images[i], roi, kind)]]]

PrintChart(chart, next) ==
    /\ console' = Append(console, chart)
    /\ Goto(next)
    /\ UNCHANGED <<inputs, locals, mapLayers, exports>>

\* lines 169-182, 259
PrintChartMean ==
    /\ pc = "chart_mean"
    /\ PrintChart(Series("Daily Mean Air Temperature - Pantanal (Jan 2020)",
                         airTemp_pantanal_mean, "mean"), "chart_max")

\* lines 228-241, 260
PrintChartMax ==
    /\ pc = "chart_max"
    /\ PrintChart(Series("Daily Max Air Temperature - Pantanal (Jan 2020)",
                         airTemp_pantanal_max, "max"), "chart_min")

\* lines 243-256, 261
PrintChartMin ==
    /\ pc = "chart_min"
    /\ PrintChart(Series("Daily Min Air Temperature - Pantanal (Jan 2020)",
                         airTemp_pantanal_min, "min"), "export_mean")

\* Export.image.toDrive (lines 264-292): a task for the rounded image, which
\* fails when the image cannot be computed or the destination rejects it
Export(x, description, next) ==
    /\ \E image \in (IF x.ok THEN RoundImages(x.image) ELSE {x.image}) :
       \E accepted \in BOOLEAN :
          exports' = Append(exports,
            [description |-> description,
             image  |-> image,
             folder |-> "GEE",
             region |-> Coverage(roi),
             scale  |-> 1000,
             crs    |-> "EPSG:4326",
             state  |-> IF x.ok /\ accepted THEN "COMPLETED" ELSE "FAILED"])
    /\ Goto(next)
    /\ UNCHANGED <<inputs, locals, mapLayers, console>>

ExportMean ==
    pc = "export_mean" /\ Export(meanAirTemp, "MeanAirTemp_Pantanal_Jan2020", "export_max")

ExportMax ==
    pc = "export_max" /\ Export(maxAirTemp, "MaxAirTemp_Pantanal_Jan2020", "export_min")

ExportMin ==
    pc = "export_min" /\ Export(minAirTemp, "MinAirTemp_Pantanal_Jan2020", "done")

Next ==
    \/ SelectRoi
    \/ DrawBoundary
    \/ LoadEra5
    \/ DayTerra
    \/ NightTerra
    \/ Merge
    \/ Clip
    \/ CalibrateMean
    \/ CalibrateMin
    \/ CalibrateMax
    \/ Aggregate
    \/ AddLayerMean
    \/ AddLayerMax
    \/ AddLayerMin
    \/ Stats
    \/ TimeStats
    \/ TimeChart
    \/ PrintChartMean
    \/ PrintChartMax
    \/ PrintChartMin
    \/ ExportMean
    \/ ExportMax
    \/ ExportMin

Spec == Init /\ [][Next]_vars

----------------------------------------------------------------------------
(* The same script on probe inputs, for the claims about its functions:    *)
(* one day of data whose digital number n, quality flag qc and reanalysis  *)
(* value k (hundredths of a Kelvin) are swept over their ranges, and every *)
(* blend coefficient a/10 of [0, 1].                                       *)

\* LST digital numbers are 16-bit and at least MinDN; quality flags are 8-bit
MinDN == 7500
MaxDN == 2^16 - 1
MaxQC == 2^8 - 1

ProbeDay == WindowEnd - 1

ProbeDNs ==
    UNION {b..(b + ProbeValues - 1) : b \in {MinDN, 14999, MaxDN - ProbeValues + 1}}

WideDNs == MinDN..(MinDN + 10 * ProbeValues) \cup (MaxDN - 10 * ProbeValues)..MaxDN

ProbeKs == 29998..(29998 + ProbeValues - 1)

ProbeModis(d, n, qc) ==
    LET LD == [p \in Pixels |-> Px(n)]
        LN == [p \in Pixels |-> Px(MinDN + MaxDN - n)]
        QD == [p \in Pixels |-> Px(qc)]
        QN == [p \in Pixels |-> Px((qc + 2) % (MaxQC + 1))]
    IN  [props |-> TimeOf(d),
         bands |-> [LST_Day_1km   |-> Raster("DN", 1, LD),
                    QC_Day        |-> Raster("flags", 1, QD),
                    LST_Night_1km |-> Raster("DN", 1, LN),
                    QC_Night      |-> Raster("flags", 1, QN)]]

ProbeEra5(d, k) ==
    LET M == [p \in Pixels |-> Px(k)]
        L == [p \in Pixels |-> Px(k - 1)]
        H == [p \in Pixels |-> Px(k + 1)]
    IN  [props |-> TimeOf(d),
         bands |-> [mean_2m_air_temperature    |-> Raster("K", 100, M),
                    minimum_2m_air_temperature |-> Raster("K", 100, L),
                    maximum_2m_air_temperature |-> Raster("K", 100, H)]]

ProbeInput(n, qc, k, a, D) ==
    /\ boundary = Boundary(D)
    /\ MOD11A1 = <<ProbeModis(ProbeDay, n, qc), ModisImage(WindowEnd, {})>>
    /\ ERA5_DAILY = <<ProbeEra5(ProbeDay, k), Era5Image(WindowEnd)>>
    /\ emptyFirst = "error"
    /\ alpha = Const(a, 10)

InitProbe ==
    /\ \/ \E n \in ProbeDNs, k \in ProbeKs, a \in 0..10 : ProbeInput(n, 0, k, a, {})
       \/ \E qc \in 0..MaxQC : ProbeInput(15000, qc, 30000, 6, {})
       \/ \E n \in WideDNs, D \in UpTo(1) \cap SUBSET {<<"renamed", 0, "-", 0>>} :
            ProbeInput(n, 0, 30000, 6, D)
    /\ InitLocals

SpecProbe == InitProbe /\ [][Next]_vars

----------------------------------------------------------------------------
(* Properties.  What they read of the inputs and results: *)

Windowed(c) == filterDate(c, WindowStart, WindowEnd)

Kinds == {"mean", "min", "max"}

SeriesOf(k) ==
    IF k = "mean" THEN airTemp_pantanal_mean
    ELSE IF k = "min" THEN airTemp_pantanal_min ELSE airTemp_pantanal_max

Era5Of(k) ==
    IF k = "mean" THEN era5_mean ELSE IF k = "min" THEN era5_min ELSE era5_max

AggregateOf(k) ==
    IF k = "mean" THEN meanAirTemp ELSE IF k = "min" THEN minAirTemp ELSE maxAirTemp

Only(image) == image.bands[TheBand(image)]

\* the reanalysis value of day d at pixel p, in Celsius
ReanalysisCelsius(era5, d, p) ==
    LET image == CHOOSE x \in Range(era5) : date(x) = d
    IN  Rat(Only(image).px[p].v * 100 - 27315 * Only(image).den, 100 * Only(image).den)

Matched(era5, d) == \E x \in Range(era5) : date(x) = d

RatLess(x, y) == RatLeq(x, y) /\ x # y

\* the inverse of the rescaling: c -> (c + 273.15) / 0.02
RescaleInverse(c) == RatMul(RatAdd(c, Rat(27315, 100)), Rat(100, 2))

RescaledFrom(out, src, p) ==
    out.px[p].valid =>
        /\ src.px[p].valid
        /\ 100 * out.px[p].v = (2 * src.px[p].v - 27315) * out.den
        /\ RescaleInverse(PxRat(out, p)) = RatOfInt(src.px[p].v)

\* C6: every unmasked pixel of the day and of the night LST series is
\* n*0.02 - 273.15 for the digital number n of its source pixel (exactly:
\* 100 times it is 2n - 27315), and (c + 273.15) / 0.02 takes it back to n.
C6_RescaleExact ==
    Ran("night_terra") =>
        /\ Len(day_terra) = Len(Windowed(MOD11A1))
        /\ Len(night_terra) = Len(Windowed(MOD11A1))
        /\ \A j \in 1..Len(Windowed(MOD11A1)) : \A p \in Pixels :
            /\ RescaledFrom(Only(day_terra[j]),
                            Windowed(MOD11A1)[j].bands["LST_Day_1km"], p)
            /\ RescaledFrom(Only(night_terra[j]),
                            Windowed(MOD11A1)[j].bands["LST_Night_1km"], p)

\* the largest digital number was rescaled by day, and some pixel by night
C6_Witness ==
    /\ Ran("night_terra")
    /\ \E j \in 1..Len(day_terra) : \E p \in Pixels :
        /\ Only(day_terra[j]).px[p].valid
        /\ Windowed(MOD11A1)[j].bands["LST_Day_1km"].px[p].v = MaxDN
        /\ Only(night_terra[j]).px[p].valid

Between(lst, r, out) ==
    IF RatLeq(lst, r) THEN RatLeq(lst, out) /\ RatLeq(out, r)
    ELSE RatLeq(r, out) /\ RatLeq(out, lst)

\* C2: every calibrated value lies between the LST value and the same-date
\* reanalysis value (in Celsius) it was blended from, is the LST value at
\* alpha = 0 and the reanalysis value at alpha = 1; for mean, min and max.
C2_BlendBetween ==
    Ran("airTemp_max") =>
        \A k \in Kinds : SeriesOf(k).ok =>
            \A i \in 1..Len(combined_pantanal) : \A p \in Pixels :
                LET image == combined_pantanal[i]
                    cal == Only(SeriesOf(k).images[i])
                IN  cal.px[p].valid =>
                        LET lst == PxRat(Only(image), p)
                            r == ReanalysisCelsius(Era5Of(k), date(image), p)
                            out == PxRat(cal, p)
                        IN  /\ Between(lst, r, out)
                            /\ alpha.n = 0 => out = lst
                            /\ alpha.n = alpha.d => out = r

\* at alpha = 1 a calibrated mean is the reanalysis value, above the LST value
C2_Witness ==
    /\ Ran("airTemp_max")
    /\ alpha.n = alpha.d
    /\ airTemp_pantanal_mean.ok
    /\ \E i \in 1..Len(combined_pantanal) : \E p \in Pixels :
        /\ Only(airTemp_pantanal_mean.images[i]).px[p].valid
        /\ RatLess(PxRat(Only(combined_pantanal[i]), p),
                   PxRat(Only(airTemp_pantanal_mean.images[i]), p))

AllCelsius(c) == \A i \in 1..Len(c) : Only(c[i]).unit = "C"

\* C9: the LST series is in Celsius before it is calibrated, the reanalysis
\* series is loaded in Kelvin and enters the blend in Celsius, and every
\* calibrated image, aggregate and statistic is in Celsius: no operation
\* combined values of two different units (that would leave the unit "?").
C9_AllCelsius ==
    /\ Ran("era5") => \A k \in Kinds : \A i \in 1..Len(Era5Of(k)) :
                        Only(Era5Of(k)[i]).unit = "K"
    /\ Ran("night_terra") => AllCelsius(day_terra) /\ AllCelsius(night_terra)
    /\ Ran("combined_pantanal") => AllCelsius(combined_pantanal)
    /\ Ran("airTemp_max") => \A k \in Kinds :
                        SeriesOf(k).ok => AllCelsius(SeriesOf(k).images)
    /\ Ran("aggregate") => \A k \in Kinds :
                        AggregateOf(k).ok => Only(AggregateOf(k).image).unit = "C"
    /\ Ran("stats") => (stats.ok => stats.value.unit = "C")
    /\ Ran("timeStats") => \A i \in 1..Len(statsFC.features) :
                        statsFC.features[i].unit = "C"

\* the three series were calibrated and reduced, with values in them
C9_Witness ==
    /\ Ran("timeStats")
    /\ stats.ok /\ stats.value.mean.valid
    /\ \A k \in Kinds : \E p \in Pixels : Only(AggregateOf(k).image).px[p].valid
    /\ \E i \in 1..Len(statsFC.features) : statsFC.features[i].air_temperature_mean.valid

RECURSIVE SumOver(_, _, _)
SumOver(I, c, p) ==
    IF I = {} THEN RatOfInt(0)
    ELSE LET i == CHOOSE x \in I : TRUE
         IN  RatAdd(PxRat(Only(c[i]), p), SumOver(I \ {i}, c, p))

\* lst + (r - lst) * alpha
BlendOf(lst, r) == RatAdd(lst, RatMul(RatSub(r, lst), Rat(alpha.n, alpha.d)))

\* C7: pixel by pixel, every valid calibrated value is
\* lst + (reanalysis_celsius - lst) * alpha for the LST value and the
\* reanalysis value of its date; the mean aggregate is the arithmetic average
\* of the valid calibrated-mean values of the series, the min aggregate the
\* least valid calibrated-min value, the max aggregate the greatest valid
\* calibrated-max value (and is masked where none is valid).
C7_Aggregates ==
    Ran("aggregate") =>
        \A k \in Kinds : SeriesOf(k).ok =>
            /\ AggregateOf(k).ok
            /\ Len(SeriesOf(k).images) = Len(combined_pantanal)
            /\ \A p \in Pixels :
                LET c == SeriesOf(k).images
                    I == {i \in 1..Len(c) : Only(c[i]).px[p].valid}
                    val(i) == PxRat(Only(c[i]), p)
                    agg == Only(AggregateOf(k).image).px[p]
                IN  /\ \A i \in I :
                        /\ date(c[i]) = date(combined_pantanal[i])
                        /\ val(i) = BlendOf(PxRat(Only(combined_pantanal[i]), p),
                                            ReanalysisCelsius(Era5Of(k), date(c[i]), p))
                    /\ agg.valid <=> I # {}
                    /\ I # {} =>
                        IF k = "mean"
                        THEN RatMul(agg.v, RatOfInt(Cardinality(I))) = SumOver(I, c, p)
                        ELSE /\ \E i \in I : agg.v = val(i)
                             /\ \A i \in I : IF k = "min" THEN RatLeq(agg.v, val(i))
                                             ELSE RatLeq(val(i), agg.v)

\* a pixel whose mean is taken over three valid observations of four
C7_Witness ==
    /\ Ran("aggregate")
    /\ airTemp_pantanal_mean.ok
    /\ \E p \in Pixels :
        LET c == airTemp_pantanal_mean.images
        IN  /\ Cardinality({i \in 1..Len(c) : Only(c[i]).px[p].valid}) = 3
            /\ Len(c) = 4

----------------------------------------------------------------------------
(* The pixel observations of the inputs.  Observation i of the merged      *)
(* series is the day band of image i of the window for i <= N and the      *)
(* night band of image i - N after that.                                   *)

NumImages == Len(Windowed(MOD11A1))

SourceOf(i) ==
    LET w == Windowed(MOD11A1) IN w[((i - 1) % Len(w)) + 1]

TimeOfDay(i) == IF i <= NumImages THEN "Day" ELSE "Night"

SourceLST(i) ==
    SourceOf(i).bands[IF TimeOfDay(i) = "Day" THEN "LST_Day_1km" ELSE "LST_Night_1km"]

SourceQC(i) ==
    SourceOf(i).bands[IF TimeOfDay(i) = "Day" THEN "QC_Day" ELSE "QC_Night"]

Bit2(q) == (q \div 4) % 2

Bit2Clear(i, p) == Bit2(SourceQC(i).px[p].v) = 0

\* the pixels of the features named 'Pantanal'
Region == UNION {boundary[f].geometry :
                    f \in {g \in 1..Len(boundary) : boundary[g].Bioma = "Pantanal"}}

HasReanalysis(d) == \E x \in Range(ERA5_DAILY) : date(x) = d

Unmatched == {i \in 1..(2 * NumImages) : ~HasReanalysis(date(SourceOf(i)))}

\* a pixel observation of good quality that was produced, lies inside the
\* region and has a reanalysis image of its date
Good(i, p) ==
    LET w == Windowed(MOD11A1)
        byDay == i <= Len(w)
        image == w[((i - 1) % Len(w)) + 1]
    IN  /\ Bit2(image.bands[IF byDay THEN "QC_Day" ELSE "QC_Night"].px[p].v) = 0
        /\ image.bands[IF byDay THEN "LST_Day_1km" ELSE "LST_Night_1km"].px[p].valid
        /\ p \in Region
        /\ HasReanalysis(date(image))

GoodAt(p) == {i \in 1..(2 * NumImages) : Good(i, p)}

GoodIn(i) == {p \in Pixels : Good(i, p)}

RECURSIVE SumPixels(_, _)
SumPixels(P, image) ==
    IF P = {} THEN RatOfInt(0)
    ELSE LET p == CHOOSE x \in P : TRUE
         IN  RatAdd(PxRat(Only(image), p), SumPixels(P \ {p}, image))

\* x is the k-aggregate ("mean", "min" or "max") of the values val[i], i in I
IsAggregate(k, x, I, val, sum) ==
    IF k = "mean" THEN RatMul(x, RatOfInt(Cardinality(I))) = sum
    ELSE /\ \E i \in I : x = val[i]
         /\ \A i \in I : IF k = "min" THEN RatLeq(x, val[i]) ELSE RatLeq(val[i], x)

\* C3 as stated: a pixel is valid after the quality filter iff bit 2 of its
\* quality flag is 0, and it is a value of the three calibrated series iff
\* bit 2 is 0.
C3_Claim ==
    /\ Ran("night_terra") =>
        \A i \in 1..(2 * NumImages) : \A p \in Pixels :
            Only((day_terra \o night_terra)[i]).px[p].valid <=> Bit2Clear(i, p)
    /\ Ran("airTemp_max") =>
        \A k \in Kinds :
            /\ SeriesOf(k).ok
            /\ \A i \in 1..(2 * NumImages) : \A p \in Pixels :
                Only(SeriesOf(k).images[i]).px[p].valid <=> Bit2Clear(i, p)

\* C3, amended: a pixel is valid after the quality filter iff it was valid
\* before and bit 2 of its quality flag is 0.  A pixel observation whose bit 2
\* is 1 is in no downstream result.  The calibrated series, the aggregates,
\* the regional statistics and the time-series points are computed from
\* exactly the pixel observations whose bit 2 is 0, whose LST was produced,
\* which lie inside the selected region and whose date has a reanalysis
\* image; when the platform rejects the calibration (a date without
\* reanalysis image) there is no result at all.
C3_QualityFilter ==
    /\ Ran("night_terra") =>
        \A i \in 1..(2 * NumImages) : \A p \in Pixels :
            Only((day_terra \o night_terra)[i]).px[p].valid
                <=> (Bit2Clear(i, p) /\ SourceLST(i).px[p].valid)
    /\ Ran("airTemp_max") =>
        \A k \in Kinds :
            /\ SeriesOf(k).ok <=> (emptyFirst = "nodata" \/ Unmatched = {})
            /\ SeriesOf(k).ok =>
                \A i \in 1..(2 * NumImages) : \A p \in Pixels :
                    Only(SeriesOf(k).images[i]).px[p].valid <=> Good(i, p)
    /\ Ran("aggregate") =>
        \A k \in Kinds :
            /\ AggregateOf(k).ok <=> SeriesOf(k).ok
            /\ AggregateOf(k).ok =>
                \A p \in Pixels :
                    LET c == SeriesOf(k).images
                        I == GoodAt(p)
                        val == [i \in I |-> PxRat(Only(c[i]), p)]
                        agg == Only(AggregateOf(k).image).px[p]
                    IN  /\ agg.valid <=> I # {}
                        /\ agg.valid => IsAggregate(k, agg.v, I, val, SumOver(I, c, p))
    /\ Ran("stats") =>
        /\ stats.ok <=> airTemp_pantanal_mean.ok
        /\ stats.ok =>
            LET P == {p \in Pixels : GoodAt(p) # {}}
                val == [p \in P |-> Only(meanAirTemp.image).px[p].v]
            IN  /\ stats.value.mean.valid <=> P # {}
                /\ P # {} =>
                    /\ IsAggregate("mean", stats.value.mean.v, P, val,
                                   SumPixels(P, meanAirTemp.image))
                    /\ IsAggregate("min", stats.value.min.v, P, val, 0)
                    /\ IsAggregate("max", stats.value.max.v, P, val, 0)
                    /\ DOMAIN stats.value.stdDev.of = {val[p] : p \in P}
    /\ Ran("timeStats") =>
        /\ statsFC.ok <=> airTemp_pantanal_mean.ok
        /\ statsFC.ok =>
            /\ Len(statsFC.features) = 2 * NumImages
            /\ \A i \in 1..(2 * NumImages) :
                LET point == statsFC.features[i].air_temperature_mean
                    image == airTemp_pantanal_mean.images[i]
                    P == GoodIn(i)
                    val == [p \in P |-> PxRat(Only(image), p)]
                IN  /\ point.valid <=> P # {}
                    /\ point.valid =>
                        IsAggregate("mean", point.v, P, val, SumPixels(P, image))

\* a low-quality observation of a pixel is left out of results that other
\* observations of the same pixel are in
C3_Witness ==
    /\ Ran("timeStats")
    /\ statsFC.ok
    /\ \E p \in Pixels : \E i, j \in 1..(2 * NumImages) :
        /\ ~Bit2Clear(i, p)
        /\ SourceLST(i).px[p].valid /\ p \in Region
        /\ Good(j, p)
        /\ statsFC.features[j].air_temperature_mean.valid
        /\ stats.value.mean.valid

----------------------------------------------------------------------------
(* The script with night_terra.merge(day_terra) at line 122 *)

SwappedClipped == ClipToRoi(merge(night_terra, day_terra))

SwappedSeries(k) ==
    LET c == SwappedClipped
    IN  MapOk([i \in 1..Len(c) |->
                 CASE k = "mean" -> calibrateLSTtoTAmean(c[i], alpha)
                   [] k = "min"  -> calibrateLSTtoTAmin(c[i], alpha)
                   [] k = "max"  -> calibrateLSTtoTAmax(c[i], alpha)])

\* lines 185-194 for a calibrated-mean series
SwappedStats(series) ==
    LET meanAirTempImage == Reduced(series, "mean")
    IN  IF meanAirTempImage.ok
        THEN [ok |-> TRUE, value |-> reduceRegionCombined(meanAirTempImage.image, roi)]
        ELSE [ok |-> FALSE]

\* lines 202-210 for a calibrated-mean series
SwappedTimeSeries(series) ==
    [i \in 1..Len(series.images) |-> timeStatsOf(series.images[i])]

\* what does not depend on the order: the observations of the three series
\* as sets, the aggregates, the regional statistics
SameUnordered(swappedMean) ==
    /\ \A k \in Kinds :
        LET swapped == IF k = "mean" THEN swappedMean ELSE SwappedSeries(k)
        IN  /\ swapped.ok = SeriesOf(k).ok
            /\ Range(swapped.images) = Range(SeriesOf(k).images)
            /\ Reduced(swapped, k) = AggregateOf(k)
    /\ SwappedStats(swappedMean) = stats

\* C10 as stated: with the merge order swapped the three calibrated series
\* hold the same observations, and the aggregates, the regional statistics
\* and the reported time-series are identical.
C10_Claim ==
    Ran("timeStats") =>
        LET swappedMean == SwappedSeries("mean")
        IN  /\ SameUnordered(swappedMean)
            /\ SwappedTimeSeries(swappedMean) = statsFC.features

----------------------------------------------------------------------------
(* Claims the script does not meet *)

\* C1: when some LST observation's date has no reanalysis image, each of the
\* three calibrations ends in an error and yields no raster for that date;
\* when every date has one, each succeeds.
C1_Claim ==
    Ran("airTemp_max") =>
        \A k \in Kinds :
            LET missing == {i \in 1..Len(combined_pantanal) :
                                ~Matched(Era5Of(k), date(combined_pantanal[i]))}
            IN  /\ missing # {} =>
                    /\ ~SeriesOf(k).ok
                    /\ SeriesOf(k).images = <<>>
                /\ missing = {} => SeriesOf(k).ok

\* the outputs in the order they were emitted: layers, then prints, then exports
Emitted ==
    [i \in 1..Len(mapLayers) |-> mapLayers[i].ok]
    \o [i \in 1..Len(console) |-> console[i].ok]
    \o [i \in 1..Len(exports) |-> exports[i].state = "COMPLETED"]

\* C4: nothing is emitted after the first output that failed.
C4_Claim ==
    \A i \in 1..Len(Emitted) : ~Emitted[i] => i = Len(Emitted)

\* C5: unless exactly one feature has the requested name, no stage after the
\* region selection runs (no clipping, reduction or export).
C5_Claim ==
    (pc # "roi" /\ Len(roi) # 1) =>
        /\ ~Ran("combined_pantanal")
        /\ exports = <<>>

\* C8: the time-series has one point per observation of the calibrated-mean
\* series, with its date, and the points are in non-decreasing date order.
C8_Claim ==
    (Ran("timeStats") /\ statsFC.ok) =>
        /\ Len(statsFC.features) = Len(airTemp_pantanal_mean.images)
        /\ \A i \in 1..Len(statsFC.features) :
            statsFC.features[i].date = date(airTemp_pantanal_mean.images[i])
        /\ \A i, j \in 1..Len(statsFC.features) :
            i < j => statsFC.features[i].date <= statsFC.features[j].date

====
